---- MODULE Spec2Model ----
(***************************************************************************)
(* Model of scripts/data_download.py (class DataDownload): the extraction  *)
(* pipeline extract_time_series, the incremental update_time_series, the   *)
(* quality masking mask_invalid_data and the geometry helper define_bbox.   *)
(*                                                                         *)
(* Dates are day numbers 1..MaxDay.  The parquet bucket is a map from file  *)
(* name to the rows of that file; a file name is the pair of the start and  *)
(* end date the f-string of line 293 is built from.  Callers are the        *)
(* processes Procs; each runs one call at a time, step by step.  Spec is     *)
(* one caller issuing calls one after another; SpecConc is two callers      *)
(* running update_time_series concurrently; SpecMask and SpecBbox apply the *)
(* two pure functions to bounded inputs.                                    *)
(***************************************************************************)
EXTENDS Integers, Sequences, FiniteSets, TLC

\* ---------------------------------------------------------------- bounds
MaxDay == 3
MaxCalls == 3

Days == 1..MaxDay
\* the dates callers pass to extract_time_series (start and end, in any order)
ReqDates == {1, 2}
\* the satellite's revisit period: a scene every day, or every second day
Revisits == {1, 2}
Catalogs == {{d \in Days : d % k = 1 % k} : k \in Revisits}
Procs == {1, 2}
AoiNames == {"A", "B"}
\* bounding boxes as define_bbox returns them: <<minx, miny, maxx, maxy>>
Bboxes == {<<0, 0, 2, 2>>, <<1, 1, 3, 3>>}
\* the data sources __init__ configures
DataSources == {"hls", "sentinel-2"}

VARIABLES
    today,      \* datetime.date.today()
    catalog,    \* days for which the STAC catalog holds a scene
    store,      \* the bucket: file name -> rows of the parquet file ({}: no file)
    ncalls,     \* calls started so far
    pc,         \* per caller: position in the running call
    call,       \* per caller: the running (or last) call and its arguments
    tdy,        \* per caller: local `today` of update_time_series
    max_date,   \* per caller: local `max_date` of update_time_series
    items,      \* per caller: local `item_collection` of extract_time_series
    gdf,        \* per caller: local `indices_gdf` of extract_time_series
    ret,        \* per caller: value returned by the last call
    outcome,    \* per caller: how the last call ended
    nsearch,    \* per caller: catalog searches issued by the running call
    nload,      \* per caller: cube loads issued by the running call
    nwrite,     \* per caller: store writes attempted by the running call
    snap,       \* per caller: the store as it was when the call was entered
    store0,     \* the store of the initial state
    m_source, m_raw, m_out,          \* mask_invalid_data: data source, one pixel, result
    b_lat, b_lon, b_rad, b_out       \* define_bbox: arguments and result

pipeVars == <<today, catalog, store, ncalls, pc, call, tdy, max_date, items,
              gdf, ret, outcome, nsearch, nload, nwrite, snap>>
maskVars == <<m_source, m_raw, m_out>>
bboxVars == <<b_lat, b_lon, b_rad, b_out>>
vars == <<pipeVars, store0, maskVars, bboxVars>>

\* ------------------------------------------------------------ the store
FileNames == Days \X Days

\* f'indices_time_series_{start_date}_to_{end_date}' (the AOI name is not part of it)
FileName(start_date, end_date) == <<start_date, end_date>>

\* shapely box(minx, miny, maxx, maxy): the polygon's corner points
Box(b) == {<<b[3], b[2]>>, <<b[3], b[4]>>, <<b[1], b[4]>>, <<b[1], b[2]>>}

Min(S) == CHOOSE x \in S : \A y \in S : x <= y
Max(S) == CHOOSE x \in S : \A y \in S : x >= y

\* ST_Extent of a set of points: <<min_x, min_y, max_x, max_y>>
ExtentOfPoints(P) ==
    <<Min({q[1] : q \in P}), Min({q[2] : q \in P}),
      Max({q[1] : q \in P}), Max({q[2] : q \in P})>>

\* rows that read_parquet('s3://bucket/*.parquet') WHERE aoi_name = name yields
RowsOf(st, name) ==
    {r \in UNION {st[f] : f \in FileNames} : r.aoi_name = name}

NoFiles(st) == \A f \in FileNames : st[f] = {}

\* variant: the query defaults to the epoch when the AOI has no row
\* (COALESCE(MAX(time), epoch))
MaxTime_Epoch(st, name) ==
    IF RowsOf(st, name) = {} THEN {0}
    ELSE {Max({r.time : r \in RowsOf(st, name)})}

\* SELECT MAX(time) ... fetchone(): {} stands for (None,), {d} for (d,)
MaxTime(st, name) ==
    IF RowsOf(st, name) = {} THEN {}
    ELSE {Max({r.time : r \in RowsOf(st, name)})}

\* SELECT ST_EXTENT(geometry) ... LIMIT 1: ST_EXTENT is the scalar, per-row
\* function (it returns the BOX_2D struct the code indexes with 'min_x'), and
\* LIMIT 1 without ORDER BY keeps whichever row comes first.
BboxCandidates(st, name) ==
    {ExtentOfPoints(r.geometry) : r \in RowsOf(st, name)}

\* indices_gdf.to_parquet(s3_path): creates the file or replaces it
WriteFile(st, f, rows) == [st EXCEPT ![f] = rows]

\* ---------------------------------------------------------- external services
\* variant: the datetime interval is not passed to the search
CatalogSearch_NoDateFilter(cat, tod, bbox, start_date, end_date) ==
    {d \in cat : d <= tod + 1}

\* client.search(collections, datetime=f"{start}/{end}", bbox).item_collection():
\* the scenes whose acquisition day lies in the interval (every scene of the
\* catalog covers every box of Bboxes).  The catalog stamps
\* scenes in UTC while `today` is the local date, so a scene may be dated one
\* day past `today`.
CatalogSearch(cat, tod, bbox, start_date, end_date) ==
    {d \in cat : start_date <= d /\ d <= end_date /\ d <= tod + 1}

\* variant: the zero-items check never fires (len(...) < 0)
NoItems_Negative(its) == Cardinality(its) < 0

\* len(item_collection.items) == 0
NoItems(its) == Cardinality(its) = 0

\* odc.stac.load(group_by="solar_day") ... GeoDataFrame: one row per solar day,
\* with the AOI name and the polygon box(*aoi_bbox).  groupby("time.week")
\* followed by mean over x and y keeps the time axis of the cube, so the
\* `time` column holds the acquisition times, not week numbers.
ComputeRows(its, aoi_name, aoi_bbox) ==
    {[time |-> d, aoi_name |-> aoi_name, geometry |-> Box(aoi_bbox)] : d \in its}

\* variant: max_date[0].date() <= today
NeedsUpdate_Inclusive(m, t) == m <= t

\* max_date[0].date() < today
NeedsUpdate(m, t) == m < t

\* variant: the update starts on the watermark day itself
DatePlusOne_SameDay(m) == m

\* (max_date[0] + datetime.timedelta(days=1)).strftime("%Y-%m-%d")
DatePlusOne(m) == m + 1

NoCall == [op |-> "none", aoi_name |-> "", aoi_bbox |-> <<>>,
           start_date |-> 0, end_date |-> 0]

\* -------------------------------------------------------------- entering a call
Enter(p, c) ==
    /\ pc[p] = "idle"
    /\ ncalls < MaxCalls
    /\ ncalls' = ncalls + 1
    /\ call' = [call EXCEPT ![p] = c]
    /\ max_date' = [max_date EXCEPT ![p] = {}]
    /\ items' = [items EXCEPT ![p] = {}]
    /\ gdf' = [gdf EXCEPT ![p] = {}]
    /\ ret' = [ret EXCEPT ![p] = {}]
    /\ outcome' = [outcome EXCEPT ![p] = "running"]
    /\ nsearch' = [nsearch EXCEPT ![p] = 0]
    /\ nload' = [nload EXCEPT ![p] = 0]
    /\ nwrite' = [nwrite EXCEPT ![p] = 0]
    /\ snap' = [snap EXCEPT ![p] = store]

\* a caller invokes extract_time_series(aoi_bbox, aoi_name, start_date, end_date)
CallExtract(p) ==
    \E b \in Bboxes, n \in AoiNames, s \in ReqDates, e \in ReqDates :
        /\ Enter(p, [op |-> "extract", aoi_name |-> n, aoi_bbox |-> b,
                     start_date |-> s, end_date |-> e])
        /\ pc' = [pc EXCEPT ![p] = "e_search"]
        /\ UNCHANGED <<today, catalog, store, tdy>>

\* a caller invokes update_time_series(aoi_name): duckdb.connect() .. today = date.today()
CallUpdate(p) ==
    \E n \in AoiNames :
        /\ Enter(p, [NoCall EXCEPT !.op = "update", !.aoi_name = n])
        /\ pc' = [pc EXCEPT ![p] = "u_max"]
        /\ tdy' = [tdy EXCEPT ![p] = today]
        /\ UNCHANGED <<today, catalog, store>>

\* the call of p ends with outcome o and return value v
Finish(p, o, v) ==
    /\ pc' = [pc EXCEPT ![p] = "idle"]
    /\ outcome' = [outcome EXCEPT ![p] = o]
    /\ ret' = [ret EXCEPT ![p] = v]

\* ------------------------------------------------------------ update_time_series
\* the MAX(time) query raises (no parquet file matches the glob, or the store
\* cannot be reached): the exception leaves update_time_series
UpdateReadMaxFail(p) ==
    /\ pc[p] = "u_max"
    /\ Finish(p, "ReadError", {})
    /\ UNCHANGED <<today, catalog, store, ncalls, call, tdy, max_date, items,
                   gdf, nsearch, nload, nwrite, snap>>

\* the MAX(time) query answers and `if max_date[0].date() < today` is evaluated
UpdateReadMax(p) ==
    /\ pc[p] = "u_max"
    /\ ~NoFiles(store)
    /\ LET m == MaxTime(store, call[p].aoi_name) IN
        /\ max_date' = [max_date EXCEPT ![p] = m]
        /\ IF m = {}
             THEN Finish(p, "AttributeError", {})      \* None.date()
             ELSE IF NeedsUpdate(Max(m), tdy[p])
                    THEN /\ pc' = [pc EXCEPT ![p] = "u_bbox"]
                         /\ UNCHANGED <<outcome, ret>>
                    ELSE Finish(p, "noop", {})         \* falls off the end
    /\ UNCHANGED <<today, catalog, store, ncalls, call, tdy, items, gdf,
                   nsearch, nload, nwrite, snap>>

\* the ST_EXTENT query raises
UpdateReadBboxFail(p) ==
    /\ pc[p] = "u_bbox"
    /\ Finish(p, "ReadError", {})
    /\ UNCHANGED <<today, catalog, store, ncalls, call, tdy, max_date, items,
                   gdf, nsearch, nload, nwrite, snap>>

\* the ST_EXTENT query answers; target_aoi_bbox and the arguments of the
\* extract_time_series call are built
UpdateReadBbox(p) ==
    /\ pc[p] = "u_bbox"
    /\ ~NoFiles(store)
    /\ IF BboxCandidates(store, call[p].aoi_name) = {}
         THEN /\ Finish(p, "TypeError", {})            \* fetchone() is None
              /\ UNCHANGED call
         ELSE /\ \E b \in BboxCandidates(store, call[p].aoi_name) :
                    call' = [call EXCEPT ![p].aoi_bbox = b,
                                         ![p].start_date = DatePlusOne(Max(max_date[p])),
                                         ![p].end_date = tdy[p]]
              /\ pc' = [pc EXCEPT ![p] = "e_search"]
              /\ UNCHANGED <<outcome, ret>>
    /\ UNCHANGED <<today, catalog, store, ncalls, tdy, max_date, items, gdf,
                   nsearch, nload, nwrite, snap>>

\* ----------------------------------------------------------- extract_time_series
\* Client.open / client.search raises
ExtractSearchFail(p) ==
    /\ pc[p] = "e_search"
    /\ nsearch' = [nsearch EXCEPT ![p] = @ + 1]
    /\ Finish(p, "UpstreamError", {})
    /\ UNCHANGED <<today, catalog, store, ncalls, call, tdy, max_date, items,
                   gdf, nload, nwrite, snap>>

\* Client.open, client.search, item_collection and the zero-items check
ExtractSearch(p) ==
    /\ pc[p] = "e_search"
    /\ nsearch' = [nsearch EXCEPT ![p] = @ + 1]
    /\ LET its == CatalogSearch(catalog, today, call[p].aoi_bbox,
                                call[p].start_date, call[p].end_date) IN
        /\ items' = [items EXCEPT ![p] = its]
        /\ IF NoItems(its)
             THEN Finish(p, "NoDataFound", {})         \* raise ValueError
             ELSE /\ pc' = [pc EXCEPT ![p] = "e_load"]
                  /\ UNCHANGED <<outcome, ret>>
    /\ UNCHANGED <<today, catalog, store, ncalls, call, tdy, max_date, gdf,
                   nload, nwrite, snap>>

\* odc.stac.load (or the deferred computation it feeds) raises
ExtractLoadFail(p) ==
    /\ pc[p] = "e_load"
    /\ nload' = [nload EXCEPT ![p] = @ + 1]
    /\ Finish(p, "UpstreamError", {})
    /\ UNCHANGED <<today, catalog, store, ncalls, call, tdy, max_date, items,
                   gdf, nsearch, nwrite, snap>>

\* odc.stac.load, masking, the four indices, dask.compute and the GeoDataFrame
ExtractLoad(p) ==
    /\ pc[p] = "e_load"
    /\ nload' = [nload EXCEPT ![p] = @ + 1]
    /\ gdf' = [gdf EXCEPT ![p] = ComputeRows(items[p], call[p].aoi_name,
                                             call[p].aoi_bbox)]
    /\ pc' = [pc EXCEPT ![p] = "e_write"]
    /\ UNCHANGED <<today, catalog, store, ncalls, call, tdy, max_date, items,
                   ret, outcome, nsearch, nwrite, snap>>

\* variant: the write is wrapped in try/except, the failure is logged and the
\* frame is returned all the same
ExtractWriteFail_Swallow(p) ==
    /\ pc[p] = "e_write"
    /\ nwrite' = [nwrite EXCEPT ![p] = @ + 1]
    /\ pc' = [pc EXCEPT ![p] = "idle"]
    /\ outcome' = [outcome EXCEPT ![p] = "WriteError"]
    /\ ret' = [ret EXCEPT ![p] = IF call[p].op = "extract" THEN gdf[p] ELSE {}]
    /\ UNCHANGED <<today, catalog, store, ncalls, call, tdy, max_date, items,
                   gdf, nsearch, nload, snap>>

\* indices_gdf.to_parquet raises: the exception leaves extract_time_series
\* (and update_time_series, which does not catch it); nothing is returned
ExtractWriteFail(p) ==
    /\ pc[p] = "e_write"
    /\ nwrite' = [nwrite EXCEPT ![p] = @ + 1]
    /\ Finish(p, "WriteError", {})
    /\ UNCHANGED <<today, catalog, store, ncalls, call, tdy, max_date, items,
                   gdf, nsearch, nload, snap>>

\* indices_gdf.to_parquet succeeds and `return indices_gdf`; update_time_series
\* then logs and returns None
ExtractWrite(p) ==
    /\ pc[p] = "e_write"
    /\ nwrite' = [nwrite EXCEPT ![p] = @ + 1]
    /\ store' = WriteFile(store, FileName(call[p].start_date, call[p].end_date),
                          gdf[p])
    /\ Finish(p, "ok", IF call[p].op = "extract" THEN gdf[p] ELSE {})
    /\ UNCHANGED <<today, catalog, ncalls, call, tdy, max_date, items, gdf,
                   nsearch, nload, snap>>

\* midnight passes
Tick ==
    /\ today < MaxDay
    /\ today' = today + 1
    /\ UNCHANGED <<catalog, store, ncalls, pc, call, tdy, max_date, items, gdf,
                   ret, outcome, nsearch, nload, nwrite, snap>>

PipeInit ==
    /\ today = 1
    /\ catalog \in Catalogs
    /\ store = [f \in FileNames |-> {}]
    /\ ncalls = 0
    /\ pc = [p \in Procs |-> "idle"]
    /\ call = [p \in Procs |-> NoCall]
    /\ tdy = [p \in Procs |-> 1]
    /\ max_date = [p \in Procs |-> {}]
    /\ items = [p \in Procs |-> {}]
    /\ gdf = [p \in Procs |-> {}]
    /\ ret = [p \in Procs |-> {}]
    /\ outcome = [p \in Procs |-> "none"]
    /\ nsearch = [p \in Procs |-> 0]
    /\ nload = [p \in Procs |-> 0]
    /\ nwrite = [p \in Procs |-> 0]
    /\ snap = [p \in Procs |-> store]
    /\ store0 = store

\* ------------------------------------------------------------- mask_invalid_data
\* One pixel of the dataset is a function from asset name to raw value.
\* the value xarray's where() puts where its condition is false
NaN == -1

\* the assets the method reads, per data source (`blue = ds['B02']` ...)
BandAssets(source) ==
    IF source = "hls"
      THEN [blue |-> "B02", red |-> "B04", nir |-> "B05", swir1 |-> "B06",
            swir2 |-> "B07", scl |-> "Fmask"]
      ELSE [blue |-> "blue", red |-> "red", nir |-> "nir", swir1 |-> "swir16",
            swir2 |-> "swir22", scl |-> "scl"]

AssetNames(source) ==
    {BandAssets(source)[k] : k \in DOMAIN BandAssets(source)}

\* the codes handed to scl.isin([...]), per data source
InvalidCodes(source) ==
    IF source = "hls" THEN {0, 1, 3, 4, 5} ELSE {3, 6, 8, 9, 10}

\* ds = ds.where(ds != 0): every variable of the dataset, the quality layer included
ZeroToNan(px) == [a \in DOMAIN px |-> IF px[a] # 0 THEN px[a] ELSE NaN]

\* scl.isin(codes): NaN is a member of no list
IsIn(v, codes) == v # NaN /\ v \in codes

\* band.where(cond)
Where(v, cond) == IF cond THEN v ELSE NaN

\* mask_invalid_data(ds): <<red, blue, nir, swir1, swir2>>, masked
MaskInvalidData(source, px) ==
    LET ds == ZeroToNan(px)
        as == BandAssets(source)
        mask == IsIn(ds[as.scl], InvalidCodes(source))
    IN  <<Where(ds[as.red], ~mask), Where(ds[as.blue], ~mask),
          Where(ds[as.nir], ~mask), Where(ds[as.swir1], ~mask),
          Where(ds[as.swir2], ~mask)>>

\* raw values of a spectral band (0: no observation) and of the quality layer
BandValues == {0, 7}
QualityValues == 0..11

Pixels(source) ==
    {[a \in AssetNames(source) |->
        IF a = BandAssets(source).scl THEN q ELSE b[a]] :
        q \in QualityValues,
        b \in [AssetNames(source) \ {BandAssets(source).scl} -> BandValues]}

MaskIdle == m_source = "hls" /\ m_raw = <<>> /\ m_out = <<>>

MaskInit ==
    /\ m_source \in DataSources
    /\ m_raw \in Pixels(m_source)
    /\ m_out = <<>>

ApplyMask ==
    /\ m_out = <<>>
    /\ m_out' = MaskInvalidData(m_source, m_raw)
    /\ UNCHANGED <<m_source, m_raw>>

\* -------------------------------------------------------------------- define_bbox
\* Latitudes and longitudes are whole degrees, the radius is in metres, and the
\* returned box is in units of 1e-5 degree.
Lats == {-85, -34, 0, 34, 49, 89}
Lons == {-123, 36, 151}
Rads == {-10, 0, 10, 100, 300}

\* the latitudes for which a UTM zone exists: gdf.estimate_utm_crs() raises
\* RuntimeError("Unable to determine UTM CRS") outside them
UtmSouth == -80
UtmNorth == 84
HasUtmCrs(lat) == UtmSouth <= lat /\ lat <= UtmNorth

\* variant: if rad < 0
RadiusInvalid_Strict(rad) == rad < 0

\* if rad <= 0
RadiusInvalid(rad) == rad <= 0

Abs(x) == IF x < 0 THEN -x ELSE x

\* 100 * cos(lat), to the nearest tabulated latitude
CosPct(lat) ==
    IF Abs(lat) < 15 THEN 100
    ELSE IF Abs(lat) < 40 THEN 83
    ELSE IF Abs(lat) < 60 THEN 66
    ELSE 17

\* buffer(rad) in the metric CRS, back to EPSG:4326, total_bounds
\* (one degree of latitude is 111320 m)
BufferBounds(lat, lon, rad) ==
    LET dy == (rad * 100000) \div 111320
        dx == (dy * 100) \div CosPct(lat)
    IN  <<lon * 100000 - dx, lat * 100000 - dy,
          lon * 100000 + dx, lat * 100000 + dy>>

\* define_bbox(lat, lon, rad): the projection comes first, then the radius check
DefineBboxResult(lat, lon, rad) ==
    IF ~HasUtmCrs(lat) THEN [kind |-> "RuntimeError", bbox |-> <<>>]
    ELSE IF RadiusInvalid(rad) THEN [kind |-> "ValueError", bbox |-> <<>>]
    ELSE [kind |-> "list", bbox |-> BufferBounds(lat, lon, rad)]

NoResult == [kind |-> "unset", bbox |-> <<>>]

BboxIdle == b_lat = 0 /\ b_lon = 0 /\ b_rad = 0 /\ b_out = NoResult

BboxInit ==
    /\ b_lat \in Lats
    /\ b_lon \in Lons
    /\ b_rad \in Rads
    /\ b_out = NoResult

DefineBbox ==
    /\ b_out = NoResult
    /\ b_out' = DefineBboxResult(b_lat, b_lon, b_rad)
    /\ UNCHANGED <<b_lat, b_lon, b_rad>>

\* --------------------------------------------------------------- specifications
\* one caller, calls one after another
Init == PipeInit /\ MaskIdle /\ BboxIdle

Step(p) ==
    \/ UpdateReadMaxFail(p)
    \/ UpdateReadMax(p)
    \/ UpdateReadBboxFail(p)
    \/ UpdateReadBbox(p)
    \/ ExtractSearchFail(p)
    \/ ExtractSearch(p)
    \/ ExtractLoadFail(p)
    \/ ExtractLoad(p)
    \/ ExtractWriteFail(p)
    \/ ExtractWrite(p)

Next ==
    /\ UNCHANGED <<store0, maskVars, bboxVars>>
    /\ \/ Tick
       \/ CallExtract(1)
       \/ CallUpdate(1)
       \/ Step(1)

Spec == Init /\ [][Next]_vars

\* two callers; the bucket holds one batch for each AOI, written by two
\* extract_time_series calls on day 1; each caller runs update_time_series once
ConcStores(cat) ==
    {WriteFile(WriteFile([f \in FileNames |-> {}],
                         FileName(ra[1], ra[2]),
                         ComputeRows(CatalogSearch(cat, 1, ba, ra[1], ra[2]), "A", ba)),
               FileName(rb[1], rb[2]),
               ComputeRows(CatalogSearch(cat, 1, bb, rb[1], rb[2]), "B", bb)) :
        ra \in {r \in ReqDates \X ReqDates :
                  ~NoItems(CatalogSearch(cat, 1, <<>>, r[1], r[2]))},
        rb \in {r \in ReqDates \X ReqDates :
                  ~NoItems(CatalogSearch(cat, 1, <<>>, r[1], r[2]))},
        ba \in Bboxes, bb \in Bboxes}

ConcInit ==
    /\ today = 1
    /\ catalog \in Catalogs
    /\ store \in {st \in ConcStores(catalog) :
                    RowsOf(st, "A") # {} /\ RowsOf(st, "B") # {}}
    /\ ncalls = 0
    /\ pc = [p \in Procs |-> "idle"]
    /\ call = [p \in Procs |-> NoCall]
    /\ tdy = [p \in Procs |-> 1]
    /\ max_date = [p \in Procs |-> {}]
    /\ items = [p \in Procs |-> {}]
    /\ gdf = [p \in Procs |-> {}]
    /\ ret = [p \in Procs |-> {}]
    /\ outcome = [p \in Procs |-> "none"]
    /\ nsearch = [p \in Procs |-> 0]
    /\ nload = [p \in Procs |-> 0]
    /\ nwrite = [p \in Procs |-> 0]
    /\ snap = [p \in Procs |-> store]
    /\ store0 = store
    /\ MaskIdle /\ BboxIdle

ConcCallUpdate(p) == outcome[p] = "none" /\ CallUpdate(p)

ConcNext ==
    /\ UNCHANGED <<store0, maskVars, bboxVars>>
    /\ \/ Tick
       \/ \E p \in Procs : ConcCallUpdate(p) \/ Step(p)

SpecConc == ConcInit /\ [][ConcNext]_vars

\* one caller; the bucket holds one batch of one AOI, written by an
\* extract_time_series call on day 1; the caller then runs update_time_series
\* for that AOI, one call after another
UpdStores(cat) ==
    {WriteFile([f \in FileNames |-> {}], FileName(r[1], r[2]),
               ComputeRows(CatalogSearch(cat, 1, b, r[1], r[2]), n, b)) :
        r \in {q \in ReqDates \X ReqDates :
                 ~NoItems(CatalogSearch(cat, 1, <<>>, q[1], q[2]))},
        b \in Bboxes, n \in AoiNames}

UpdInit ==
    /\ today = 1
    /\ catalog \in Catalogs
    /\ store \in UpdStores(catalog)
    /\ ncalls = 0
    /\ pc = [p \in Procs |-> "idle"]
    /\ call = [p \in Procs |-> NoCall]
    /\ tdy = [p \in Procs |-> 1]
    /\ max_date = [p \in Procs |-> {}]
    /\ items = [p \in Procs |-> {}]
    /\ gdf = [p \in Procs |-> {}]
    /\ ret = [p \in Procs |-> {}]
    /\ outcome = [p \in Procs |-> "none"]
    /\ nsearch = [p \in Procs |-> 0]
    /\ nload = [p \in Procs |-> 0]
    /\ nwrite = [p \in Procs |-> 0]
    /\ snap = [p \in Procs |-> store]
    /\ store0 = store
    /\ MaskIdle /\ BboxIdle

UpdCallUpdate ==
    /\ CallUpdate(1)
    /\ RowsOf(store0, call'[1].aoi_name) # {}

UpdNext ==
    /\ UNCHANGED <<store0, maskVars, bboxVars>>
    /\ \/ Tick
       \/ UpdCallUpdate
       \/ Step(1)

SpecUpd == UpdInit /\ [][UpdNext]_vars

\* the pipeline at rest
PipeIdle == PipeInit /\ catalog = Days

\* mask_invalid_data applied to every pixel of the bounded input set
MaskSpecInit == MaskInit /\ BboxIdle /\ PipeIdle
MaskNext == ApplyMask /\ UNCHANGED <<pipeVars, store0, bboxVars>>
SpecMask == MaskSpecInit /\ [][MaskNext]_vars

\* define_bbox applied to every argument triple of the bounded input set
BboxSpecInit == BboxInit /\ MaskIdle /\ PipeIdle
BboxNext == DefineBbox /\ UNCHANGED <<pipeVars, store0, maskVars>>
SpecBbox == BboxSpecInit /\ [][BboxNext]_vars

\* ------------------------------------------------------------------ properties
\* the bounding extent of every geometry persisted for the AOI
ExtentAll(st, name) ==
    ExtentOfPoints(UNION {r.geometry : r \in RowsOf(st, name)})

Extracting(p) == pc[p] \in {"e_search", "e_load", "e_write"}

NothingIssued(p) == nsearch[p] = 0 /\ nload[p] = 0 /\ nwrite[p] = 0

\* the catalog search of the running (or last) call of p came back
SearchReturned(p) ==
    /\ nsearch[p] = 1
    /\ ~(outcome[p] = "UpstreamError" /\ nload[p] = 0)

\* C1: persistence is append-only: a successful call leaves every batch file
\* that was in the store when it began in place and unchanged.
C1_AppendOnly ==
    \A p \in Procs :
        (pc[p] = "idle" /\ outcome[p] = "ok") =>
            \A f \in FileNames : snap[p][f] # {} => store[f] = snap[p][f]

\* C2: when the watermark is before today, update_time_series calls
\* extract_time_series once, with start = watermark + 1 day, end = today, the
\* given AOI name and the bounding extent of all geometries persisted for it.
C2_UpdateArguments ==
    \A p \in Procs :
        (call[p].op = "update" /\ Extracting(p)) =>
            /\ Max(max_date[p]) < tdy[p]
            /\ call[p].start_date = Max(max_date[p]) + 1
            /\ call[p].end_date = tdy[p]
            /\ call[p].aoi_bbox = ExtentAll(snap[p], call[p].aoi_name)
            /\ nsearch[p] <= 1

\* C3: when the watermark read for the AOI is today or later, update_time_series
\* ends as a no-op: it returns nothing, issues no catalog search, cube load or
\* store write, and the store is as it was.
C3_NoOpWhenCurrent ==
    \A p \in Procs :
        (call[p].op = "update" /\ max_date[p] # {} /\ Max(max_date[p]) >= tdy[p]) =>
            /\ pc[p] = "idle"
            /\ outcome[p] = "noop"
            /\ ret[p] = {}
            /\ NothingIssued(p)
            /\ store = snap[p]

C3_Witness ==
    \E p \in Procs :
        /\ call[p].op = "update"
        /\ outcome[p] = "noop"
        /\ Max(max_date[p]) >= tdy[p]

\* C4: when the catalog search returns zero items the call has failed with
\* "no data found", and no cube load and no store write took place.
C4_NoDataFound ==
    \A p \in Procs :
        (SearchReturned(p) /\ items[p] = {}) =>
            /\ pc[p] = "idle"
            /\ outcome[p] = "NoDataFound"
            /\ nload[p] = 0
            /\ nwrite[p] = 0
            /\ store = snap[p]

C4_Witness ==
    \E p \in Procs :
        /\ call[p].op = "extract"
        /\ call[p].start_date <= call[p].end_date
        /\ outcome[p] = "NoDataFound"

\* C5: two concurrent updates of different AOIs are independent: once both have
\* finished, the rows persisted for each AOI are the rows it had before plus
\* the batch its own update wrote.
C5_UpdatesIndependent ==
    ((\A p \in Procs : call[p].op = "update" /\ pc[p] = "idle" /\ outcome[p] = "ok")
        /\ call[1].aoi_name # call[2].aoi_name) =>
            \A p \in Procs :
                RowsOf(store, call[p].aoi_name) =
                    RowsOf(store0, call[p].aoi_name) \cup gdf[p]

\* C6: update_time_series fails closed: nothing is searched, loaded or written
\* unless the watermark was read and is a date, and when the read fails or the
\* store holds no row of the AOI the call ends in failure with nothing issued.
C6_FailClosed ==
    \A p \in Procs :
        call[p].op = "update" =>
            /\ (pc[p] # "u_max" /\ RowsOf(snap[p], call[p].aoi_name) = {}) =>
                   /\ pc[p] = "idle"
                   /\ outcome[p] \in {"ReadError", "AttributeError"}
            /\ (Extracting(p) \/ pc[p] = "u_bbox" \/ ~NothingIssued(p)) =>
                   /\ max_date[p] # {}
                   /\ max_date[p] = {Max({r.time : r \in RowsOf(snap[p], call[p].aoi_name)})}
            /\ outcome[p] \in {"ReadError", "AttributeError"} =>
                   /\ NothingIssued(p)
                   /\ store = snap[p]

C6_Witness ==
    \E p \in Procs :
        /\ call[p].op = "update"
        /\ outcome[p] = "AttributeError"
        /\ ~NoFiles(store)
        /\ RowsOf(store, call[p].aoi_name) = {}

\* C7 as stated: when the store write fails after the result was computed, the
\* computed result is still returned to the caller.
C7_ResultReturnedOnWriteFailure ==
    \A p \in Procs :
        (call[p].op = "extract" /\ outcome[p] = "WriteError") =>
            gdf[p] # {} /\ ret[p] = gdf[p]

\* C7 as amended: when the store write fails after the result was computed, the
\* failure is raised to the caller and no result is returned.
C7_WriteFailureRaises ==
    \A p \in Procs :
        outcome[p] = "WriteError" =>
            /\ pc[p] = "idle"
            /\ gdf[p] # {}
            /\ ret[p] = {}

C7_Witness ==
    \E p \in Procs :
        /\ call[p].op = "extract"
        /\ outcome[p] = "WriteError"
        /\ nwrite[p] = 1

\* C8: each of the five masked bands is no-data exactly when the raw band value
\* is 0 or the raw quality value is one of the source's invalid codes, and is
\* the raw value otherwise.
C8_MaskedIffInvalid ==
    m_out # <<>> =>
        LET as == BandAssets(m_source)
            bands == <<as.red, as.blue, as.nir, as.swir1, as.swir2>>
        IN  \A i \in 1..5 :
                IF m_raw[bands[i]] = 0 \/ m_raw[as.scl] \in InvalidCodes(m_source)
                  THEN m_out[i] = NaN
                  ELSE m_out[i] = m_raw[bands[i]]

\* C9 as stated: extract_time_series with start after end fails with an
\* invalid-argument error before any catalog search is issued.
C9_RejectsInvertedRange ==
    \A p \in Procs :
        (call[p].op = "extract" /\ call[p].start_date > call[p].end_date) =>
            /\ nsearch[p] = 0
            /\ pc[p] = "idle" => outcome[p] = "InvalidArgument"

\* C9 as amended: extract_time_series with start after end is not rejected up
\* front; it issues the catalog search and fails only after it (no data found,
\* or the catalog's own error), with no cube load and no store write.
C9_InvertedRangeSearched ==
    \A p \in Procs :
        (call[p].op = "extract" /\ call[p].start_date > call[p].end_date
            /\ pc[p] = "idle") =>
            /\ nsearch[p] = 1
            /\ outcome[p] \in {"NoDataFound", "UpstreamError"}
            /\ nload[p] = 0
            /\ nwrite[p] = 0
            /\ store = snap[p]

C9_Witness ==
    \E p \in Procs :
        /\ call[p].op = "extract"
        /\ call[p].start_date > call[p].end_date
        /\ nsearch[p] = 1
        /\ outcome[p] = "NoDataFound"

\* the radius contract of define_bbox on its result
RadiusContract ==
    IF b_rad <= 0
      THEN b_out.kind = "ValueError" /\ b_out.bbox = <<>>
      ELSE b_out.kind = "list" /\ Len(b_out.bbox) = 4

\* C10 as stated: for every lat and lon, define_bbox raises ValueError when the
\* radius is <= 0 and returns a 4-element list when it is > 0.
C10_RadiusContractEverywhere ==
    b_out # NoResult => RadiusContract

\* C10 as amended: at every point for which a UTM zone exists (latitude from
\* 80 S to 84 N), define_bbox raises ValueError when the radius is <= 0 and
\* returns a 4-element list when it is > 0.
C10_RadiusContractInUtm ==
    (b_out # NoResult /\ -80 <= b_lat /\ b_lat <= 84) => RadiusContract

C10_Witness ==
    /\ b_out.kind = "ValueError"
    /\ b_rad = 0
    /\ b_lat = 34

\* the files of the store that hold something
Files(st) == {f \in FileNames : st[f] # {}}

\* the acquisition times a file holds for an AOI
TimesIn(st, f, name) == {r.time : r \in {q \in st[f] : q.aoi_name = name}}

\* C11: updates do not duplicate data.  From a store holding one extraction
\* batch of an AOI, and through any sequence of update_time_series calls for
\* it: every row an update computes and persists is dated after the watermark
\* the update read and no later than the update's today; no two files hold a
\* row of the AOI with the same time; no row of the AOI is lost and the
\* watermark never decreases.
C11_NoDuplicates ==
    \A p \in Procs :
        call[p].op = "update" =>
            LET name == call[p].aoi_name IN
            /\ \A r \in gdf[p] : Max(max_date[p]) < r.time /\ r.time <= tdy[p]
            /\ (pc[p] = "idle" /\ outcome[p] = "ok") =>
                   store[FileName(call[p].start_date, call[p].end_date)] = gdf[p]
            /\ \A f \in Files(store), g \in Files(store) :
                   f # g => TimesIn(store, f, name) \cap TimesIn(store, g, name) = {}
            /\ RowsOf(snap[p], name) \subseteq RowsOf(store, name)
            /\ Max({r.time : r \in RowsOf(store, name)})
                   >= Max({r.time : r \in RowsOf(snap[p], name)})

\* two updates have each persisted a batch after the first extraction
C11_Witness ==
    \E p \in Procs :
        /\ call[p].op = "update"
        /\ pc[p] = "idle"
        /\ outcome[p] = "ok"
        /\ Cardinality(Files(snap[p])) = 2
        /\ Cardinality(Files(store)) = 3

====
